---- MODULE Spec2Model ----
(***************************************************************************)
(* Model of linear/algorithms/producer_consumer.py: the builder-style      *)
(* ProducerConsumerAlgorithm, the time block partitioner                   *)
(* TimeBlock.period_to_blocks, the linear program assembled by solve() and *)
(* the Schedule decoded from the solver's answer.                          *)
(*                                                                         *)
(* Instants are whole minutes counted from datetime.min; a timedelta is a  *)
(* number of minutes.  Quantities (required_units, max_supply, prices) are *)
(* integers: every variable of the program's LP occurs in exactly one      *)
(* delivery row and one (producer, block) row, so the constraint matrix is *)
(* totally unimodular and the basic solutions a simplex solver returns for *)
(* integer data are integer.                                               *)
(***************************************************************************)
EXTENDS Integers, Sequences, FiniteSets, TLC

VARIABLES
    initial_date,     \* ProducerConsumerAlgorithm.initial_date
    blocks_per_hour,  \* ProducerConsumerAlgorithm.blocks_per_hour
    hours,            \* ProducerConsumerAlgorithm.hours
    unit_prices,      \* ProducerConsumerAlgorithm.unit_prices (list, in registration order)
    deliveries,       \* ProducerConsumerAlgorithm.deliveries (dict, in insertion order)
    time_blocks,      \* ProducerConsumerAlgorithm.time_blocks (block number -> TimeBlock)
    variables,        \* ProducerConsumerAlgorithm.variables (delivery -> block numbers holding a NumVar)
    values,           \* solution_value() of every NumVar after Solve()
    status,           \* the status returned by solver.Solve()
    schedule,         \* the Schedule returned by solve()
    report,           \* the schedule rows written by Schedule.print()
    raised,           \* the exception the last call ended with, "none" if it returned
    solves,           \* number of solve() calls made so far
    history           \* per solve() call so far: the model handed to the solver, its answer, the outcome

vars == <<initial_date, blocks_per_hour, hours, unit_prices, deliveries,
          time_blocks, variables, values, status, schedule, report, raised, solves,
          history>>

(***************************************************************************)
(* Bounds of the model.                                                    *)
(***************************************************************************)
MaxRules == 2        \* with_unit_price calls per configuration
MaxDeliveries == 2   \* distinct deliveries per configuration
MaxCells == 6        \* deliveries x time blocks of a configuration that is solved
MaxRulesTwice == 1   \* with_unit_price calls of a configuration that is solved twice

None == 0 - 1        \* Python's None for an absent date or block number

(***************************************************************************)
(* Domain entities (Consumer, Producer) the deliveries are drawn from.     *)
(***************************************************************************)
Consumers ==
    { [id |-> "co1", required_units |-> 2, departure_date |-> 60],
      [id |-> "ev2", required_units |-> 1, departure_date |-> 45] }

Producers ==
    { [id |-> "cp1", max_supply |-> 1],
      [id |-> "cp2", max_supply |-> 2] }

InitialDates == {0, 10}
HoursValues == {0 - 1, 0, 1, 2}
BlocksPerHourValues == {0 - 1, 0, 1, 2, 3, 4}

\* arguments of with_unit_price: interval rules, block-number rules, and a
\* call that passes neither
PriceRules ==
    { [date_from |-> 0,    date_until |-> 30,   block_number |-> None, price |-> 2],
      [date_from |-> 30,   date_until |-> 120,  block_number |-> None, price |-> 1],
      [date_from |-> None, date_until |-> None, block_number |-> 1,    price |-> 3],
      [date_from |-> 15,   date_until |-> 45,   block_number |-> 0,    price |-> 4],
      [date_from |-> None, date_until |-> None, block_number |-> None, price |-> 1] }

(***************************************************************************)
(* Delivery                                                                *)
(***************************************************************************)
Delivery(consumer, producer) ==
    [consumer |-> consumer, producer |-> producer,
     id |-> <<consumer.id, producer.id>>]

(***************************************************************************)
(* UnitPrice                                                               *)
(***************************************************************************)
UnitPrice(date_from, date_until, block_number, price) ==
    [date_from |-> date_from, date_until |-> date_until,
     block_number |-> block_number, price |-> price]

(***************************************************************************)
(* TimeBlock                                                               *)
(***************************************************************************)
TimeBlock(number, date_from, date_until, price) ==
    [number |-> number, date_from |-> date_from,
     date_until |-> date_until, price |-> price]

\* variant: rounds down to the multiple of delta at or before dt
ceil_dt_Floor(dt, delta) == dt - (dt % delta)

\* dt + (datetime.min - dt) % delta
ceil_dt(dt, delta) == dt + ((0 - dt) % delta)

\* int(60 / blocks_per_hour), for blocks_per_hour > 0
minutes_per_block(bph) == 60 \div bph

\* variant: the interval is closed at date_until
RuleMatches_Closed(energy_price, date, number) ==
    \/ energy_price.block_number = number
    \/ /\ energy_price.date_from # None
       /\ energy_price.date_until # None
       /\ energy_price.date_from <= date
       /\ date <= energy_price.date_until

\* does the rule match the block that starts at date and has this number
RuleMatches(energy_price, date, number) ==
    \/ energy_price.block_number = number
    \/ /\ energy_price.date_from # None
       /\ energy_price.date_until # None
       /\ energy_price.date_from <= date
       /\ date < energy_price.date_until

RECURSIVE PriceFrom(_, _, _, _)
PriceFrom(prices, k, date, number) ==
    IF k > Len(prices) THEN 0
    ELSE IF RuleMatches(prices[k], date, number) THEN prices[k].price
    ELSE PriceFrom(prices, k + 1, date, number)

get_price_for_date_or_number(prices, date, number) ==
    PriceFrom(prices, 1, date, number)

\* variant: hours is not asserted
period_to_blocks_raises_HoursUnchecked(bph, hrs) ==
    IF bph <= 0 THEN "AssertionError"
    ELSE IF minutes_per_block(bph) = 0 THEN "ZeroDivisionError"
    ELSE "none"

\* the exception period_to_blocks ends with, "none" when it returns
period_to_blocks_raises(bph, hrs) ==
    IF bph <= 0 \/ hrs <= 0 THEN "AssertionError"
    ELSE IF minutes_per_block(bph) = 0 THEN "ZeroDivisionError"
    ELSE "none"

\* the dict of blocks period_to_blocks returns, keyed by block number
period_to_blocks(bph, hrs, initial, prices) ==
    LET total_blocks == bph * hrs
        width == minutes_per_block(bph)
        start_date == ceil_dt(initial, width)
    IN  [number \in 0..(total_blocks - 1) |->
            LET time == start_date + number * width
            IN  TimeBlock(number, time, time + width,
                          get_price_for_date_or_number(prices, time, number))]

NoBlocks == [number \in {} |-> TimeBlock(0, 0, 0, 0)]

NoReport == [printed |-> FALSE, rows |-> <<>>]

NoSchedule == [solved |-> FALSE, result |-> "", total_price |-> 0, deliveries |-> <<>>]

(***************************************************************************)
(* ProducerConsumerAlgorithm: construction and the with_... calls          *)
(***************************************************************************)
Init ==
    /\ initial_date \in InitialDates
    /\ blocks_per_hour = 4
    /\ hours = 24
    /\ unit_prices = <<>>
    /\ deliveries = <<>>
    /\ time_blocks = NoBlocks
    /\ variables = <<>>
    /\ values = <<>>
    /\ status = "NOT_SOLVED"
    /\ schedule = NoSchedule
    /\ report = NoReport
    /\ raised = "none"
    /\ solves = 0
    /\ history = <<>>

results == <<time_blocks, variables, values, status, schedule, report, raised, solves,
             history>>

with_initial_date ==
    /\ solves = 0
    /\ \E d \in InitialDates : initial_date' = d
    /\ UNCHANGED <<blocks_per_hour, hours, unit_prices, deliveries, results>>

with_hours ==
    /\ solves = 0
    /\ \E h \in HoursValues : hours' = h
    /\ UNCHANGED <<initial_date, blocks_per_hour, unit_prices, deliveries, results>>

with_blocks_per_hour ==
    /\ solves = 0
    /\ \E b \in BlocksPerHourValues : blocks_per_hour' = b
    /\ UNCHANGED <<initial_date, hours, unit_prices, deliveries, results>>

with_unit_price ==
    /\ solves = 0
    /\ Len(unit_prices) < MaxRules
    /\ \E r \in PriceRules :
          /\ r.block_number # None \/ (r.date_from # None /\ r.date_until # None)
          /\ unit_prices' = Append(unit_prices,
                UnitPrice(r.date_from, r.date_until, r.block_number, r.price))
    /\ UNCHANGED <<initial_date, blocks_per_hour, hours, deliveries, results>>

\* self.deliveries[delivery.id] = delivery: a known id keeps its position
PutDelivery(dels, delivery) ==
    IF \E k \in 1..Len(dels) : dels[k].id = delivery.id
    THEN [k \in 1..Len(dels) |-> IF dels[k].id = delivery.id THEN delivery ELSE dels[k]]
    ELSE Append(dels, delivery)

with_delivery ==
    /\ solves = 0
    /\ \E consumer \in Consumers, producer \in Producers :
          /\ Len(PutDelivery(deliveries, Delivery(consumer, producer))) <= MaxDeliveries
          /\ deliveries' = PutDelivery(deliveries, Delivery(consumer, producer))
    /\ UNCHANGED <<initial_date, blocks_per_hour, hours, unit_prices, results>>

(***************************************************************************)
(* ProducerConsumerAlgorithm.solve: the model handed to the solver         *)
(***************************************************************************)
\* variant: a block that already held a variable after an earlier solve()
\* gets no new one
BuildVariables_Stale(dels, blocks) ==
    [i \in 1..Len(dels) |->
        {block_number \in DOMAIN blocks :
            /\ blocks[block_number].date_until <= dels[i].consumer.departure_date
            /\ ~(i \in DOMAIN variables /\ block_number \in variables[i])}]

\* variant: only blocks that end strictly before the departure
BuildVariables_Strict(dels, blocks) ==
    [i \in 1..Len(dels) |->
        {block_number \in DOMAIN blocks :
            blocks[block_number].date_until < dels[i].consumer.departure_date}]

\* self.variables: a NumVar for (delivery, block) only if the block ends
\* no later than the consumer departs
BuildVariables(dels, blocks) ==
    [i \in 1..Len(dels) |->
        {block_number \in DOMAIN blocks :
            blocks[block_number].date_until <= dels[i].consumer.departure_date}]

\* variant: every block weighs the same in the objective
ObjectiveCoefficient_Flat(blocks, block_number) == 1

\* objective.SetCoefficient(variable, time_block.price)
ObjectiveCoefficient(blocks, block_number) == blocks[block_number].price

\* variant: one constraint per distinct consumer, shared by all of the
\* consumer's deliveries
ConsumerConstraint_Merged(dels, vs, i) ==
    [lb |-> dels[i].consumer.required_units,
     ub |-> dels[i].consumer.required_units,
     terms |-> {<<k, block_number>> \in (1..Len(dels)) \X (UNION {vs[n] : n \in 1..Len(vs)}) :
                   /\ dels[k].consumer.id = dels[i].consumer.id
                   /\ block_number \in vs[k]}]

\* variant: the consumer may receive less than it requires
ConsumerConstraint_AtMost(dels, vs, i) ==
    [lb |-> 0,
     ub |-> dels[i].consumer.required_units,
     terms |-> {<<i, block_number>> : block_number \in vs[i]}]

\* the solver.Constraint created in the iteration of delivery i of the
\* consumer loop; terms are the variables given coefficient 1
ConsumerConstraint(dels, vs, i) ==
    [lb |-> dels[i].consumer.required_units,
     ub |-> dels[i].consumer.required_units,
     terms |-> {<<i, block_number>> : block_number \in vs[i]}]

_get_producers(dels) == {dels[i].producer : i \in 1..Len(dels)}

\* variant: only the first delivery of the producer enters its constraint
ProducerConstraint_FirstDelivery(dels, vs, pr, block_number) ==
    [lb |-> 0,
     ub |-> pr.max_supply,
     terms |-> {<<i, block_number>> : i \in
                  {k \in 1..Len(dels) :
                      /\ dels[k].producer.id = pr.id /\ block_number \in vs[k]
                      /\ \A j \in 1..(k - 1) : dels[j].producer.id # pr.id}}]

\* the solver.Constraint created for producer pr and one block
ProducerConstraint(dels, vs, pr, block_number) ==
    [lb |-> 0,
     ub |-> pr.max_supply,
     terms |-> {<<i, block_number>> : i \in
                  {k \in 1..Len(dels) :
                      dels[k].producer.id = pr.id /\ block_number \in vs[k]}}]

\* every constraint solve() registers with the solver
Constraints(dels, blocks, vs) ==
    {ConsumerConstraint(dels, vs, i) : i \in 1..Len(dels)}
    \cup {ProducerConstraint(dels, vs, pr, b) : pr \in _get_producers(dels), b \in DOMAIN blocks}

(***************************************************************************)
(* The solver (pywraplp, GLOP): a black box that minimises the objective   *)
(* over the assignments of non-negative values to the variables that keep  *)
(* every constraint within its bounds.                                     *)
(***************************************************************************)
RECURSIVE SumOver(_, _)
SumOver(f, S) ==
    IF S = {} THEN 0
    ELSE LET x == CHOOSE y \in S : TRUE IN f[x] + SumOver(f, S \ {x})

Min(S) == CHOOSE x \in S : \A y \in S : x <= y

\* value of the terms of a constraint under assignment a (a[i][block])
TermsValue(c, a) == SumOver([t \in c.terms |-> a[t[1]][t[2]]], c.terms)

ConstraintHolds(c, a) == c.lb <= TermsValue(c, a) /\ TermsValue(c, a) <= c.ub

\* a variable is >= 0 and has coefficient 1 wherever it occurs, so it cannot
\* exceed the upper bound of any constraint it occurs in
VarUpper(cs, i, vs) ==
    LET ubs == {c.ub : c \in {k \in cs : \E b \in vs[i] : <<i, b>> \in k.terms}}
    IN  IF ubs = {} \/ Min(ubs) < 0 THEN 0 ELSE Min(ubs)

\* the values of the variables of delivery i that keep the constraints
\* over these variables alone
RowsOf(cs, i, vs) ==
    LET own == {c \in cs : c.terms # {} /\ \A t \in c.terms : t[1] = i}
    IN  {r \in [vs[i] -> 0..VarUpper(cs, i, vs)] :
            \A c \in own : ConstraintHolds(c, [k \in {i} |-> r])}

RECURSIVE Assignments(_, _, _)
Assignments(cs, n, vs) ==
    IF n = 0 THEN {<<>>}
    ELSE {Append(a, r) : a \in Assignments(cs, n - 1, vs), r \in RowsOf(cs, n, vs)}

FeasibleSet(cs, vs) ==
    IF \E c \in cs : c.terms = {} /\ ~(c.lb <= 0 /\ 0 <= c.ub) THEN {}
    ELSE {a \in Assignments(cs, Len(vs), vs) : \A c \in cs : ConstraintHolds(c, a)}

\* the objective: sum of value x coefficient over all variables
Objective(blocks, vs, a) ==
    LET cells == {<<i, b>> \in (1..Len(vs)) \X (DOMAIN blocks) : b \in vs[i]}
    IN  SumOver([t \in cells |-> a[t[1]][t[2]] * ObjectiveCoefficient(blocks, t[2])], cells)

OptimalSet(blocks, vs, F) ==
    LET best == Min({Objective(blocks, vs, a) : a \in F})
    IN  {a \in F : Objective(blocks, vs, a) = best}

\* what the variables may hold when the solver found no solution
UnsolvedValues(vs) ==
    {[i \in 1..Len(vs) |-> [b \in vs[i] |-> v]] : v \in {0, 1}}

\* solver.Solve(): the status and the solution values
Solve(dels, blocks, vs) ==
    LET F == FeasibleSet(Constraints(dels, blocks, vs), vs)
    IN  IF F = {}
        THEN {[status |-> s, values |-> a] :
                 s \in {"INFEASIBLE", "ABNORMAL"}, a \in UnsolvedValues(vs)}
        ELSE {[status |-> "OPTIMAL", values |-> a] : a \in OptimalSet(blocks, vs, F)}
             \cup {[status |-> "FEASIBLE", values |-> a] : a \in F}

(***************************************************************************)
(* Schedule                                                                *)
(***************************************************************************)
\* the (delivery, block) pairs in the order of the two loops over
\* variables.items() and delivery_vars.items()
RECURSIVE VarItems(_, _, _, _)
VarItems(vs, i, b, n) ==
    IF i > Len(vs) THEN <<>>
    ELSE IF b >= n THEN VarItems(vs, i + 1, 0, n)
    ELSE (IF b \in vs[i] THEN <<<<i, b>>>> ELSE <<>>) \o VarItems(vs, i, b + 1, n)

IsSolved(st) == st = "OPTIMAL" \/ st = "FEASIBLE"

ResultMessage(st) ==
    IF st = "OPTIMAL" THEN "Optimal solution found"
    ELSE IF st = "FEASIBLE" THEN "A potentially suboptimal solution was found."
    ELSE "The solver could not solve the problem."

\* variant: a record for every variable that is not negative
Appends_Zero(value) == value >= 0

\* does the extraction loop append a record for this value
Appends(value) == value > 0

DeliveryRecord(dels, blocks, vals, t) ==
    [time_block |-> t[2],
     producer |-> dels[t[1]].producer.id,
     consumer |-> dels[t[1]].consumer.id,
     units_to_supply |-> vals[t[1]][t[2]],
     unit_price |-> blocks[t[2]].price]

\* self.deliveries after the loops
RECURSIVE Records(_, _, _, _)
Records(dels, blocks, vals, items) ==
    IF items = <<>> THEN <<>>
    ELSE (IF Appends(vals[Head(items)[1]][Head(items)[2]])
          THEN <<DeliveryRecord(dels, blocks, vals, Head(items))>>
          ELSE <<>>) \o Records(dels, blocks, vals, Tail(items))

\* self.total_price after the loops
RECURSIVE TotalPrice(_, _, _)
TotalPrice(blocks, vals, items) ==
    IF items = <<>> THEN 0
    ELSE (IF Appends(vals[Head(items)[1]][Head(items)[2]])
          THEN vals[Head(items)[1]][Head(items)[2]] * blocks[Head(items)[2]].price
          ELSE 0) + TotalPrice(blocks, vals, Tail(items))

\* variant: the extraction loops run whatever the status
Extracts_Always(st) == TRUE

\* does __init__ run the extraction loops
Extracts(st) == IsSolved(st)

\* Schedule.__init__
Schedule(st, dels, blocks, vs, vals) ==
    LET items == VarItems(vs, 1, 0, Cardinality(DOMAIN blocks))
    IN  [solved |-> IsSolved(st),
         result |-> ResultMessage(st),
         total_price |-> IF Extracts(st) THEN TotalPrice(blocks, vals, items) ELSE 0,
         deliveries |-> IF Extracts(st) THEN Records(dels, blocks, vals, items) ELSE <<>>]

\* variant: a sort that is not stable
RECURSIVE InsertSorted_Unstable(_, _)
InsertSorted_Unstable(s, x) ==
    IF s = <<>> THEN <<x>>
    ELSE IF s[Len(s)].time_block < x.time_block THEN Append(s, x)
    ELSE Append(InsertSorted_Unstable(SubSeq(s, 1, Len(s) - 1), x), s[Len(s)])

\* sorted(self.deliveries, key=lambda k: k['time_block']): a stable sort
RECURSIVE InsertSorted(_, _)
InsertSorted(s, x) ==
    IF s = <<>> THEN <<x>>
    ELSE IF s[Len(s)].time_block <= x.time_block THEN Append(s, x)
    ELSE Append(InsertSorted(SubSeq(s, 1, Len(s) - 1), x), s[Len(s)])

RECURSIVE sorted(_)
sorted(s) ==
    IF s = <<>> THEN <<>>
    ELSE InsertSorted(sorted(SubSeq(s, 1, Len(s) - 1)), s[Len(s)])

\* the schedule rows Schedule.print writes, in the order written
PrintedRows(sch) == IF ~sch.solved THEN <<>> ELSE sorted(sch.deliveries)

(***************************************************************************)
(* ProducerConsumerAlgorithm.solve                                         *)
(***************************************************************************)
config == <<initial_date, blocks_per_hour, hours, unit_prices, deliveries>>

\* what solve() has handed to the solver when it calls Solve()
Model(dels, blocks, vs) ==
    [variables |-> vs,
     coefficients |-> [i \in 1..Len(vs) |->
                          [b \in vs[i] |-> ObjectiveCoefficient(blocks, b)]],
     constraints |-> Constraints(dels, blocks, vs)]

NoModel == [variables |-> <<>>, coefficients |-> <<>>, constraints |-> {}]

NoAnswer == [status |-> "NOT_SOLVED", values |-> <<>>]

\* the solver is a deterministic program: handed a model it has solved
\* before, it answers as it did then
Answers(dels, blocks, vs) ==
    LET model == Model(dels, blocks, vs)
        same == {k \in 1..Len(history) :
                    history[k].raised = "none" /\ history[k].model = model}
    IN  IF same # {} THEN {history[k].answer : k \in same}
        ELSE Solve(dels, blocks, vs)

\* print_results is read only after the Schedule is built
SolveBody ==
    /\ solves' = solves + 1
    /\ UNCHANGED config
    /\ IF period_to_blocks_raises(blocks_per_hour, hours) # "none"
       THEN /\ raised' = period_to_blocks_raises(blocks_per_hour, hours)
            /\ history' = Append(history,
                   [raised |-> period_to_blocks_raises(blocks_per_hour, hours),
                    model |-> NoModel, answer |-> NoAnswer, schedule |-> NoSchedule])
            /\ UNCHANGED <<time_blocks, variables, values, status, schedule, report>>
       ELSE LET blocks == period_to_blocks(blocks_per_hour, hours, initial_date, unit_prices)
                vs == BuildVariables(deliveries, blocks)
            IN  \E o \in Answers(deliveries, blocks, vs) :
                   LET returned == Schedule(o.status, deliveries, blocks, vs, o.values)
                   IN  /\ raised' = "none"
                       /\ time_blocks' = blocks
                       /\ variables' = vs
                       /\ values' = o.values
                       /\ status' = o.status
                       /\ schedule' = returned
                       /\ history' = Append(history,
                              [raised |-> "none",
                               model |-> Model(deliveries, blocks, vs),
                               answer |-> o,
                               schedule |-> returned])
                       /\ \E print_results \in BOOLEAN :
                             report' = IF print_results
                                       THEN [printed |-> TRUE, rows |-> PrintedRows(returned)]
                                       ELSE NoReport

\* the first solve() of the object
SolveCall ==
    /\ solves = 0
    /\ SolveBody

\* solve() on the configurations small enough to enumerate
solve ==
    /\ Len(deliveries) * blocks_per_hour * hours <= MaxCells
    /\ SolveCall

Next ==
    \/ with_initial_date
    \/ with_hours
    \/ with_blocks_per_hour
    \/ with_unit_price
    \/ with_delivery
    \/ solve

Spec == Init /\ [][Next]_vars

(***************************************************************************)
(* Properties of the Schedule returned by solve()                          *)
(***************************************************************************)
Returned == solves = 1 /\ raised = "none"

RECURSIVE Units(_)
Units(recs) ==
    IF recs = <<>> THEN 0 ELSE Head(recs).units_to_supply + Units(Tail(recs))

RecordsOfConsumer(id) ==
    SelectSeq(schedule.deliveries, LAMBDA r : r.consumer = id)

RecordsOfProducerIn(id, b) ==
    SelectSeq(schedule.deliveries, LAMBDA r : r.producer = id /\ r.time_block = b)

\* the position in self.deliveries of the delivery a record belongs to
DeliveryOf(r) ==
    CHOOSE i \in 1..Len(deliveries) : deliveries[i].id = <<r.consumer, r.producer>>

\* C1: in a solved Schedule the units of the records of each consumer, over
\* all its deliveries, add up to exactly the consumer's required_units.
C1_ConsumerReceivesRequiredUnits ==
    (Returned /\ schedule.solved) =>
        \A i \in 1..Len(deliveries) :
            Units(RecordsOfConsumer(deliveries[i].consumer.id))
                = deliveries[i].consumer.required_units

\* C2: in a solved Schedule the units of the records of one producer in one
\* block, over all consumers, never exceed the producer's max_supply.
C2_ProducerCapacityPerBlock ==
    (Returned /\ schedule.solved) =>
        \A pr \in _get_producers(deliveries) : \A b \in DOMAIN time_blocks :
            Units(RecordsOfProducerIn(pr.id, b)) <= pr.max_supply

\* a solved Schedule in which a producer serves two consumers in one block
\* and supplies more than max_supply over the horizon
C2_Witness ==
    /\ Returned /\ schedule.solved
    /\ \E pr \in _get_producers(deliveries) :
          /\ \E b \in DOMAIN time_blocks : Len(RecordsOfProducerIn(pr.id, b)) = 2
          /\ Units(SelectSeq(schedule.deliveries, LAMBDA r : r.producer = pr.id))
                > pr.max_supply

\* C3: a variable exists for (delivery, block) exactly when the block ends at
\* or before the departure of the delivery's consumer, and no record names a
\* block that ends after the departure of its consumer.
C3_VariableIffBlockEndsByDeparture ==
    Returned =>
        /\ \A i \in 1..Len(deliveries) : \A b \in DOMAIN time_blocks :
              b \in variables[i] <=>
                  time_blocks[b].date_until <= deliveries[i].consumer.departure_date
        /\ \A k \in 1..Len(schedule.deliveries) :
              time_blocks[schedule.deliveries[k].time_block].date_until
                  <= deliveries[DeliveryOf(schedule.deliveries[k])].consumer.departure_date

\* a record for a block that ends exactly at the departure, while a later
\* block of the same delivery has no variable
C3_Witness ==
    /\ Returned /\ schedule.solved
    /\ \E k \in 1..Len(schedule.deliveries) :
          LET r == schedule.deliveries[k]
              i == DeliveryOf(r)
          IN  /\ time_blocks[r.time_block].date_until = deliveries[i].consumer.departure_date
              /\ \E b \in DOMAIN time_blocks : b \notin variables[i]

\* the records of the Schedule made for the variable of delivery i in block b
RecordsOfVariable(i, b) ==
    SelectSeq(schedule.deliveries,
              LAMBDA r : /\ r.time_block = b
                         /\ r.consumer = deliveries[i].consumer.id
                         /\ r.producer = deliveries[i].producer.id)

RECURSIVE Amount(_)
Amount(recs) ==
    IF recs = <<>> THEN 0
    ELSE Head(recs).units_to_supply * Head(recs).unit_price + Amount(Tail(recs))

\* C5: a solved Schedule holds exactly one record per variable with a value
\* above zero, carrying the value and the price of its block, no record for
\* a variable at zero, and total_price is the sum of units x unit_price.
C5_OneRecordPerPositiveVariable ==
    (Returned /\ schedule.solved) =>
        /\ \A i \in 1..Len(deliveries) : \A b \in variables[i] :
              IF values[i][b] > 0
              THEN /\ Len(RecordsOfVariable(i, b)) = 1
                   /\ RecordsOfVariable(i, b)[1].units_to_supply = values[i][b]
                   /\ RecordsOfVariable(i, b)[1].unit_price = time_blocks[b].price
              ELSE RecordsOfVariable(i, b) = <<>>
        /\ \A k \in 1..Len(schedule.deliveries) :
              schedule.deliveries[k].time_block
                  \in variables[DeliveryOf(schedule.deliveries[k])]
        /\ schedule.total_price = Amount(schedule.deliveries)

\* a solved Schedule with a variable at zero, a record and a price to pay
C5_Witness ==
    /\ Returned /\ schedule.solved
    /\ \E i \in 1..Len(deliveries) : \E b \in variables[i] : values[i][b] = 0
    /\ schedule.deliveries # <<>>
    /\ schedule.total_price > 0

\* the consumer of delivery i of the configuration cannot be served: it has
\* no block ending by its departure, or needs more than its producer can
\* supply in the blocks that do
Unservable(i) ==
    LET blocks == period_to_blocks(blocks_per_hour, hours, initial_date, unit_prices)
        feasible == {b \in DOMAIN blocks :
                        blocks[b].date_until <= deliveries[i].consumer.departure_date}
    IN  /\ deliveries[i].consumer.required_units > 0
        /\ \/ feasible = {}
           \/ deliveries[i].consumer.required_units
                 > deliveries[i].producer.max_supply * Cardinality(feasible)

ValidPeriod == blocks_per_hour \in 1..60 /\ hours > 0

\* C6: solve() on a configuration with a consumer that cannot be served
\* returns, without raising, a Schedule that is not solved.
C6_UnservableGivesUnsolvedSchedule ==
    (solves = 1 /\ ValidPeriod /\ \E i \in 1..Len(deliveries) : Unservable(i)) =>
        /\ raised = "none"
        /\ ~schedule.solved
        /\ schedule.result = "The solver could not solve the problem."

\* one consumer without a block, another with too little capacity
C6_Witness ==
    /\ solves = 1 /\ ValidPeriod /\ raised = "none" /\ ~schedule.solved
    /\ \E i \in 1..Len(deliveries) : Unservable(i) /\ variables[i] = {}
    /\ \E i \in 1..Len(deliveries) : Unservable(i) /\ variables[i] # {}

\* C7: solved holds exactly for the statuses OPTIMAL and FEASIBLE, each of
\* the three outcomes has a message of its own, and a Schedule that is not
\* solved has total_price 0 and no records whatever the variables hold.
C7_SolvedIffOptimalOrFeasible ==
    Returned =>
        /\ schedule.solved <=> status \in {"OPTIMAL", "FEASIBLE"}
        /\ schedule.result = "Optimal solution found" <=> status = "OPTIMAL"
        /\ schedule.result = "A potentially suboptimal solution was found."
              <=> status = "FEASIBLE"
        /\ schedule.result = "The solver could not solve the problem."
              <=> status \notin {"OPTIMAL", "FEASIBLE"}
        /\ ~schedule.solved => schedule.total_price = 0 /\ schedule.deliveries = <<>>

\* an unsolved Schedule although a variable holds a value above zero in a
\* block with a price
C7_Witness ==
    /\ Returned /\ ~schedule.solved
    /\ \E i \in 1..Len(deliveries) : \E b \in variables[i] :
          values[i][b] > 0 /\ time_blocks[b].price > 0

RecordsAscendingByBlock(recs) ==
    \A j, k \in 1..Len(recs) :
        j < k =>
            \/ recs[j].time_block < recs[k].time_block
            \/ /\ recs[j].time_block = recs[k].time_block
               /\ DeliveryOf(recs[j]) < DeliveryOf(recs[k])

RecordsByDeliveryThenBlock(recs) ==
    \A j, k \in 1..Len(recs) :
        j < k =>
            \/ DeliveryOf(recs[j]) < DeliveryOf(recs[k])
            \/ /\ DeliveryOf(recs[j]) = DeliveryOf(recs[k])
               /\ recs[j].time_block < recs[k].time_block

BlocksPerHourInputs == {0 - 1, 0, 1, 2, 3, 4, 7, 61}
HoursInputs == {0 - 1, 0, 1, 2, 3}
InitialDateInputs == {0, 10, 15, 59}

ValidRules ==
    {r \in PriceRules :
        r.block_number # None \/ (r.date_from # None /\ r.date_until # None)}

RECURSIVE RuleLists(_)
RuleLists(n) ==
    IF n = 0 THEN {<<>>}
    ELSE RuleLists(n - 1)
         \cup {Append(l, r) : l \in {x \in RuleLists(n - 1) : Len(x) = n - 1}, r \in ValidRules}

InitBlocks ==
    /\ initial_date \in InitialDateInputs
    /\ blocks_per_hour \in BlocksPerHourInputs
    /\ hours \in HoursInputs
    /\ unit_prices \in RuleLists(MaxRules)
    /\ deliveries = <<>>
    /\ time_blocks = NoBlocks
    /\ variables = <<>>
    /\ values = <<>>
    /\ status = "NOT_SOLVED"
    /\ schedule = NoSchedule
    /\ report = NoReport
    /\ raised = "none"
    /\ solves = 0
    /\ history = <<>>

_prepare_data ==
    /\ time_blocks = NoBlocks /\ raised = "none"
    /\ IF period_to_blocks_raises(blocks_per_hour, hours) # "none"
       THEN /\ raised' = period_to_blocks_raises(blocks_per_hour, hours)
            /\ UNCHANGED time_blocks
       ELSE /\ time_blocks' = period_to_blocks(blocks_per_hour, hours,
                                               initial_date, unit_prices)
            /\ UNCHANGED raised
    /\ UNCHANGED <<config, variables, values, status, schedule, report, solves, history>>

NextBlocks == _prepare_data

SpecBlocks == InitBlocks /\ [][NextBlocks]_vars

Prepared == time_blocks # NoBlocks \/ raised # "none"

\* C8: for positive blocks_per_hour and hours, period_to_blocks returns
\* blocks_per_hour x hours blocks numbered from 0, each starting where the
\* one before it ends, that together span exactly `hours` hours.
C8_BlocksCoverExactlyTheHours ==
    (Prepared /\ blocks_per_hour > 0 /\ hours > 0) =>
        LET n == blocks_per_hour * hours
        IN  /\ raised = "none"
            /\ DOMAIN time_blocks = 0..(n - 1)
            /\ \A b \in DOMAIN time_blocks : time_blocks[b].number = b
            /\ \A b \in 1..(n - 1) :
                  time_blocks[b].date_from = time_blocks[b - 1].date_until
            /\ time_blocks[n - 1].date_until - time_blocks[0].date_from = hours * 60

\* the rules that match block b as C9 words it
MatchingRules(b) ==
    {k \in 1..Len(unit_prices) :
        \/ unit_prices[k].block_number # None /\ unit_prices[k].block_number = b
        \/ /\ unit_prices[k].date_from # None /\ unit_prices[k].date_until # None
           /\ unit_prices[k].date_from <= time_blocks[b].date_from
           /\ time_blocks[b].date_from < unit_prices[k].date_until}

\* C9: the price of a block is that of the first registered rule that
\* matches it by block number or by date_from <= block start < date_until,
\* and 0 when no rule matches.
C9_PriceOfFirstMatchingRule ==
    \A b \in DOMAIN time_blocks :
        IF MatchingRules(b) = {} THEN time_blocks[b].price = 0
        ELSE \E k \in MatchingRules(b) :
                /\ \A j \in MatchingRules(b) : k <= j
                /\ time_blocks[b].price = unit_prices[k].price

\* a block matched first by an interval and then by a number with another
\* price, a block that starts exactly where an interval ends, and a block
\* no rule matches
C9_Witness ==
    /\ \E b \in DOMAIN time_blocks : \E j, k \in MatchingRules(b) :
          /\ j < k
          /\ unit_prices[j].block_number = None
          /\ unit_prices[k].block_number = b
          /\ unit_prices[j].price # unit_prices[k].price
    /\ \E b \in DOMAIN time_blocks : \E k \in 1..Len(unit_prices) :
          /\ unit_prices[k].date_until = time_blocks[b].date_from
          /\ k \notin MatchingRules(b)
    /\ \E b \in DOMAIN time_blocks : MatchingRules(b) = {}

(***************************************************************************)
(* The configurations of tests.py (setUp and the five tests): two hours of *)
(* 15 minute blocks from an aligned initial_date, one producer with        *)
(* max_supply 1, consumer co1 requiring 4 units and, in test_two_ev_one_cp,*)
(* consumer ev2 requiring 2; the departure of co1 and the price rules vary *)
(* with the test.                                                          *)
(***************************************************************************)
TestProducer == [id |-> "cp1", max_supply |-> 1]

TestConsumer(departure) ==
    [id |-> "co1", required_units |-> 4, departure_date |-> departure]

TestEv2 == [id |-> "ev2", required_units |-> 2, departure_date |-> 120]

TestDepartures == {60, 90, 120}

IntervalPrice(from, until, price) == UnitPrice(from, until, None, price)

\* test_one_ev_one_cp_simple, test_one_ev_one_cp_departing_in_one_hour
SimplePrices == <<IntervalPrice(0, 60, 2), IntervalPrice(60, 120, 1)>>

\* test_one_ev_one_cp_interleaved
InterleavedPrices ==
    [k \in 1..8 |-> UnitPrice(None, None, k - 1, IF (k - 1) % 2 = 0 THEN 2 ELSE 1)]

\* test_one_ev_one_cp_departing_one_hour_and_half
HourAndHalfPrices ==
    <<IntervalPrice(0, 30, 2), IntervalPrice(30, 90, 1), IntervalPrice(90, 120, 2)>>

\* test_two_ev_one_cp
TwoEvPrices ==
    <<IntervalPrice(0, 30, 1), IntervalPrice(30, 60, 2), IntervalPrice(60, 120, 1)>>

TestPrices == {SimplePrices, InterleavedPrices, HourAndHalfPrices, TwoEvPrices}

InitTests ==
    /\ initial_date = 0
    /\ blocks_per_hour = 4
    /\ hours = 2
    /\ unit_prices \in TestPrices
    /\ \E d \in TestDepartures :
          deliveries \in {<<Delivery(TestConsumer(d), TestProducer)>>,
                          <<Delivery(TestConsumer(d), TestProducer),
                            Delivery(TestEv2, TestProducer)>>}
    /\ time_blocks = NoBlocks
    /\ variables = <<>>
    /\ values = <<>>
    /\ status = "NOT_SOLVED"
    /\ schedule = NoSchedule
    /\ report = NoReport
    /\ raised = "none"
    /\ solves = 0
    /\ history = <<>>

NextTests == SolveCall

SpecTests == InitTests /\ [][NextTests]_vars

(***************************************************************************)
(* The allocation problem as C4 words it: non-negative units per delivery  *)
(* and block, only in blocks that end by the departure of the consumer,    *)
(* each consumer receiving exactly its required_units, each producer       *)
(* supplying at most max_supply per block.                                 *)
(***************************************************************************)
BlocksBefore(i) ==
    {b \in DOMAIN time_blocks :
        time_blocks[b].date_until <= deliveries[i].consumer.departure_date}

\* the units of plan f in the blocks numbered up to b
RECURSIVE PlanUnits(_, _)
PlanUnits(f, b) ==
    IF b < 0 THEN 0
    ELSE (IF b \in DOMAIN f THEN f[b] ELSE 0) + PlanUnits(f, b - 1)

\* units x block price of plan f over the blocks numbered up to b
RECURSIVE PlanPrice(_, _)
PlanPrice(f, b) ==
    IF b < 0 THEN 0
    ELSE (IF b \in DOMAIN f THEN f[b] * time_blocks[b].price ELSE 0) + PlanPrice(f, b - 1)

\* the ways to serve delivery i alone
Plans(i) ==
    LET top == IF deliveries[i].producer.max_supply < deliveries[i].consumer.required_units
               THEN deliveries[i].producer.max_supply
               ELSE deliveries[i].consumer.required_units
        last == Cardinality(DOMAIN time_blocks) - 1
    IN  {f \in [BlocksBefore(i) -> 0..top] :
            PlanUnits(f, last) = deliveries[i].consumer.required_units}

RECURSIVE PlanLists(_)
PlanLists(n) ==
    IF n = 0 THEN {<<>>}
    ELSE {Append(a, f) : a \in PlanLists(n - 1), f \in Plans(n)}

RECURSIVE Supplied(_, _, _, _)
Supplied(a, id, b, i) ==
    IF i = 0 THEN 0
    ELSE (IF deliveries[i].producer.id = id /\ b \in DOMAIN a[i] THEN a[i][b] ELSE 0)
         + Supplied(a, id, b, i - 1)

WithinSupply(a) ==
    \A pr \in {deliveries[i].producer : i \in 1..Len(deliveries)} :
        \A b \in DOMAIN time_blocks :
            Supplied(a, pr.id, b, Len(deliveries)) <= pr.max_supply

Allocations == {a \in PlanLists(Len(deliveries)) : WithinSupply(a)}

RECURSIVE PriceOf(_, _)
PriceOf(a, i) ==
    IF i = 0 THEN 0
    ELSE PlanPrice(a[i], Cardinality(DOMAIN time_blocks) - 1) + PriceOf(a, i - 1)

AllocationPrices == {PriceOf(a, Len(deliveries)) : a \in Allocations}

OneDeliveryPerConsumer ==
    \A i, j \in 1..Len(deliveries) :
        deliveries[i].consumer.id = deliveries[j].consumer.id => i = j

\* the configuration of test_one_ev_one_cp_simple
ScenarioA ==
    /\ initial_date = 0 /\ blocks_per_hour = 4 /\ hours = 2
    /\ unit_prices = SimplePrices
    /\ deliveries = <<Delivery(TestConsumer(120), TestProducer)>>

\* C4: with every consumer in one delivery and status OPTIMAL, total_price
\* is the least price of an allocation that gives every consumer exactly
\* its required_units within the producers' max_supply per block and the
\* departures; in the configuration of the example the records are exactly
\* blocks 4 to 7 and total_price is 4.
C4_TotalPriceIsMinimum ==
    (Returned /\ status = "OPTIMAL" /\ OneDeliveryPerConsumer) =>
        /\ LET prices == AllocationPrices
           IN  /\ schedule.total_price \in prices
               /\ \A p \in prices : p >= schedule.total_price
        /\ ScenarioA =>
              /\ schedule.total_price = 4
              /\ [k \in 1..Len(schedule.deliveries) |-> schedule.deliveries[k].time_block]
                    = <<4, 5, 6, 7>>

\* the example has been solved to optimality
C4_WitnessExample == Returned /\ status = "OPTIMAL" /\ ScenarioA

\* an optimal Schedule of two deliveries that leaves the earliest block
\* unused and pays for a block although a cheaper one exists, which ends
\* after the departure of the consumer
C4_Witness ==
    /\ Returned /\ status = "OPTIMAL" /\ OneDeliveryPerConsumer
    /\ Len(deliveries) = 2
    /\ \A k \in 1..Len(schedule.deliveries) : schedule.deliveries[k].time_block # 0
    /\ \E k \in 1..Len(schedule.deliveries) : \E b \in DOMAIN time_blocks :
          /\ time_blocks[b].price < schedule.deliveries[k].unit_price
          /\ b \notin BlocksBefore(DeliveryOf(schedule.deliveries[k]))

\* C11: the first block starts at initial_date rounded up to a multiple of
\* the block width: at initial_date when that is a multiple, and otherwise
\* strictly after it and less than one block width after it.
C11_FirstBlockStartsAtCeiling ==
    (Prepared /\ raised = "none") =>
        LET first == time_blocks[0].date_from
            width == time_blocks[0].date_until - time_blocks[0].date_from
        IN  /\ first % width = 0
            /\ initial_date % width = 0 => first = initial_date
            /\ initial_date % width # 0 =>
                  first > initial_date /\ first < initial_date + width

\* a partition whose initial_date lies inside a block width
C11_Witness ==
    /\ Prepared /\ raised = "none"
    /\ time_blocks[0].date_from > initial_date
    /\ blocks_per_hour = 7

\* C12: solve() on a configuration whose blocks_per_hour or hours is zero
\* or negative ends with the assertion error of period_to_blocks, before
\* time blocks, variables or a solver status exist, and returns no Schedule.
C12_InvalidPeriodFailsBeforeTheModel ==
    (solves = 1 /\ (blocks_per_hour <= 0 \/ hours <= 0)) =>
        /\ raised = "AssertionError"
        /\ schedule = NoSchedule
        /\ report = NoReport
        /\ time_blocks = NoBlocks
        /\ variables = <<>>
        /\ values = <<>>
        /\ status = "NOT_SOLVED"

\* solve() has failed on a configuration with a delivery and a price rule
\* whose only fault is hours
C12_Witness ==
    /\ solves = 1 /\ raised = "AssertionError"
    /\ blocks_per_hour > 0 /\ hours <= 0
    /\ deliveries # <<>> /\ unit_prices # <<>>

(***************************************************************************)
(* Two solve() calls on one object: the price rules are registered first,  *)
(* the rest of the configuration is built as in Spec, and nothing is       *)
(* touched between the calls.                                              *)
(***************************************************************************)
InitTwice ==
    /\ initial_date \in InitialDates
    /\ blocks_per_hour = 4
    /\ hours = 24
    /\ unit_prices \in RuleLists(MaxRulesTwice)
    /\ deliveries = <<>>
    /\ time_blocks = NoBlocks
    /\ variables = <<>>
    /\ values = <<>>
    /\ status = "NOT_SOLVED"
    /\ schedule = NoSchedule
    /\ report = NoReport
    /\ raised = "none"
    /\ solves = 0
    /\ history = <<>>

solve_again ==
    /\ solves = 1
    /\ Len(deliveries) * blocks_per_hour * hours <= MaxCells
    /\ SolveBody

NextTwice ==
    \/ with_initial_date
    \/ with_hours
    \/ with_blocks_per_hour
    \/ with_delivery
    \/ solve
    \/ solve_again

SpecTwice == InitTwice /\ [][NextTwice]_vars

RecordsOfDelivery(i) ==
    SelectSeq(schedule.deliveries,
              LAMBDA r : /\ r.consumer = deliveries[i].consumer.id
                         /\ r.producer = deliveries[i].producer.id)

====
